---- MODULE Spec2Model ----
(***************************************************************************)
(* The two programs of the repository: the frame-paced screen recorder of  *)
(* record.py and the index generator of demo.py.  They share nothing; each *)
(* has its own variables and its own specification (Spec, DemoSpec).       *)
(*                                                                         *)
(* record.py.                                                              *)
(*                                                                         *)
(* Two threads: the main thread (the controller, record.py lines 58-69)    *)
(* and the recording thread running record_screen (lines 17-55).  They     *)
(* share one object, the threading.Event stop_flag.                        *)
(*                                                                         *)
(* Time is a discrete clock `now` counted in ticks; one tick is the        *)
(* time.sleep(0.001) of line 52.  The blocking library calls (sct.grab,    *)
(* out.write) take a nondeterministic number of ticks and may raise; the   *)
(* other statements take no time.  A program location is named by the      *)
(* line of record.py about to be executed.                                 *)
(*                                                                         *)
(* demo.py.  One thread, main() of lines 298-397: scan the directory tree, *)
(* generate and write index.html, then git add, commit and push.  The      *)
(* tree and the results of the git commands are inputs.                    *)
(***************************************************************************)
EXTENDS Integers, Sequences, FiniteSets

\* ---------------------------------------------------------------- bounds
MaxTime == 12
MaxStall == 7
MaxInterval == 3
MaxSleep == 2

\* ------------------------------------------------------------- variables
VARIABLES
  main_pc,          \* location of the main thread
  pc,               \* location of the recording thread (video_thread)
  stop_flag,        \* threading.Event: TRUE once set
  sct,              \* the mss context: "none", "open", "closed"
  out,              \* the cv2.VideoWriter: "none", "open", "released"
  frame_interval,   \* 1.0 / FPS, in ticks
  next_frame_time,  \* the deadline of the next frame
  current_time,     \* the time reading of the current iteration
  img,              \* the last raw image grabbed
  frame,            \* the last converted frame
  written,          \* the frames the writer received, in order
  now,              \* the clock, time.time()
  grabbed,          \* number of images the screen has delivered
  exc,              \* the exception that ended the recording thread, or "none"
  stop_time,        \* the clock when stop_flag was set, -1 before
  polled,           \* evaluations of stop_flag.is_set() since the last
                    \* iteration ended
  frames_after_stop,\* frames written since stop_flag was set
  sleeps_after_stop,\* idle sleeps finished since stop_flag was set
  delayed,          \* TRUE once a grab or a write took time or a sleep overran
  last_write,       \* the clock when the last out.write was called, -1 before
  prev_cost,        \* duration of the last completed capture tick, -1 before
  quiet_run,        \* capture ticks of zero duration in a row, no sleep between
  one_stall,        \* the one capture tick that took time, everything else
                    \* being on time: its cost and the clock when it ended;
                    \* NoStall before any latency, ManyStalls otherwise
  opens,            \* times a writer was opened
  releases          \* times out.release() was called

\* demo.py, the index generator: one thread, main() of lines 298-397
VARIABLES
  demo_pc,          \* location in main(), named by the line of demo.py
  fs,               \* the paths that match "*" below current_dir
  html_files,       \* the dict returned by scan_html_files
  html_content,     \* the page generated from html_files
  index_html,       \* what main() wrote to current_dir / "index.html"
  result,           \* the result of the last subprocess.run
  runs,             \* the git commands run so far, in order, with results
  banner,           \* TRUE once the "[SUCCESS]" banner of line 391 is printed
  demo_exc          \* the exception raised in main(), or "none"

demoVars == <<demo_pc, fs, html_files, html_content, index_html, result,
              runs, banner, demo_exc>>

vars == <<main_pc, pc, stop_flag, sct, out, frame_interval, next_frame_time,
          current_time, img, frame, written, now, grabbed, exc, stop_time,
          polled, frames_after_stop, sleeps_after_stop, delayed, last_write,
          prev_cost, quiet_run, one_stall, opens, releases, demoVars>>

\* the variables of record_screen's pacing and data path
loopVars == <<frame_interval, next_frame_time, current_time, img, frame,
              written, now, grabbed>>
\* the observers of the run
obsVars == <<exc, stop_time, polled, frames_after_stop,
             sleeps_after_stop, delayed, last_write, prev_cost, quiet_run,
             one_stall, opens, releases>>
\* all the variables of record.py
recordVars == <<main_pc, pc, stop_flag, sct, out, loopVars, obsVars>>

\* ------------------------------------------------------------ data model
Intervals == 1..MaxInterval
Stalls == 0..MaxStall

NoImage == [seq |-> 0, layout |-> "none"]

\* sct.grab(monitor): the n-th image of the screen, in the capture backend's
\* BGRA layout
grab(n) == [seq |-> n, layout |-> "BGRA"]

\* cv2.cvtColor(img, cv2.COLOR_BGRA2BGR): drops the alpha channel
cvtColor(i) == [seq |-> i.seq, layout |-> "BGR"]

NoStall == [cost |-> 0, end |-> -1]
ManyStalls == [cost |-> -1, end |-> -1]

InitErrors == {"CaptureInitError", "WriterInitError"}
LoopErrors == {"CaptureReadError", "WriteError"}

\* demo.py: the directory tree below current_dir.  A file name is a stem and
\* an extension; a path is a folder (relative to current_dir, "." for
\* current_dir itself) and a file name.
Folders == {".", "docs", "docs/img"}
Names == [stem : {"index", "page"}, ext : {"html", "txt"}]
Paths == [folder : Folders, name : Names]
RootIndex == [folder |-> ".", name |-> [stem |-> "index", ext |-> "html"]]

\* the folders and the file names in the order of Python's string comparison
FolderOrder == <<".", "docs", "docs/img">>
NameOrder ==
  <<[stem |-> "index", ext |-> "html"], [stem |-> "index", ext |-> "txt"],
    [stem |-> "page", ext |-> "html"], [stem |-> "page", ext |-> "txt"]>>

\* list.sort(key=lambda x: x['name']) of the entries of one folder
SortByName(S) == SelectSeq(NameOrder, LAMBDA n : n \in S)

EmptyDict == [f \in {} |-> <<>>]

\* demo.py lines 15-46: the "*.html" paths below root, without the root's own
\* index.html and without any other file of the root folder, grouped by
\* folder, each group sorted by file name
scan_html_files(tree) ==
  LET rglob == {p \in tree : p.name.ext = "html"}
      kept == {p \in rglob :
                 /\ ~(p.name.stem = "index" /\ p.folder = ".")
                 /\ p.folder # "."}
  IN  [f \in {p.folder : p \in kept} |->
         LET names == SortByName({p.name : p \in {q \in kept : q.folder = f}})
         IN  [i \in 1..Len(names) |->
                [name |-> names[i],
                 path |-> [folder |-> f, name |-> names[i]]]]]

\* demo.py lines 75-295: the page lists the folders in sorted order, each with
\* the links to its files
generate_html(files) ==
  LET sorted_folders == SelectSeq(FolderOrder, LAMBDA f : f \in DOMAIN files)
  IN  [i \in 1..Len(sorted_folders) |->
         [folder |-> sorted_folders[i], links |-> files[sorted_folders[i]]]]

NoPage == <<>>
NotWritten == [written |-> FALSE, content |-> NoPage]
NoResult == [cmd |-> "none", returncode |-> 0, nothing_to_commit |-> FALSE]

\* what a git command can report: success; exit status 1 with "nothing to
\* commit" on stdout; another failure
GitResults ==
  {[returncode |-> 0, nothing_to_commit |-> FALSE],
   [returncode |-> 1, nothing_to_commit |-> TRUE],
   [returncode |-> 1, nothing_to_commit |-> FALSE],
   [returncode |-> 128, nothing_to_commit |-> FALSE]}

\* ------------------------------------------------------------------ Init
\* record.py when the interpreter reaches line 58
RecordInit ==
  /\ main_pc = "L59"
  /\ pc = "idle"
  /\ stop_flag = FALSE
  /\ sct = "none"
  /\ out = "none"
  /\ frame_interval \in Intervals
  /\ next_frame_time = 0
  /\ current_time = 0
  /\ img = NoImage
  /\ frame = NoImage
  /\ written = <<>>
  /\ now = 0
  /\ grabbed = 0
  /\ exc = "none"
  /\ stop_time = -1
  /\ polled = 0
  /\ frames_after_stop = 0
  /\ sleeps_after_stop = 0
  /\ delayed = FALSE
  /\ last_write = -1
  /\ prev_cost = -1
  /\ quiet_run = 0
  /\ one_stall = NoStall
  /\ opens = 0
  /\ releases = 0

\* demo.py not running
DemoIdle ==
  /\ demo_pc = "idle"
  /\ fs = {}
  /\ html_files = EmptyDict
  /\ html_content = NoPage
  /\ index_html = NotWritten
  /\ result = NoResult
  /\ runs = <<>>
  /\ banner = FALSE
  /\ demo_exc = "none"

Init == RecordInit /\ DemoIdle

\* ----------------------------------------------------------- main thread
\* lines 59-60: create and start video_thread, enter the try block
StartThread ==
  /\ main_pc = "L59"
  /\ main_pc' = "L63"
  /\ pc' = "L18"
  /\ UNCHANGED <<stop_flag, sct, out, loopVars, obsVars>>
  /\ UNCHANGED demoVars

\* lines 62-66: the operator's Ctrl+C interrupts `while True: time.sleep(1)`.
\* The loop of lines 63-64 has no other exit.  An interrupt outside the try
\* block (during start or join) is not modelled.
KeyboardInterrupt ==
  /\ main_pc = "L63"
  /\ main_pc' = "L67"
  /\ UNCHANGED <<pc, stop_flag, sct, out, loopVars, obsVars>>
  /\ UNCHANGED demoVars

\* line 67: stop_flag.set()
SetStop ==
  /\ main_pc = "L67"
  /\ stop_flag' = TRUE
  /\ stop_time' = now
  /\ main_pc' = "L69"
  /\ UNCHANGED <<pc, sct, out, loopVars, exc, polled, frames_after_stop,
                 sleeps_after_stop, delayed, last_write, prev_cost, quiet_run,
                 one_stall, opens, releases>>
  /\ UNCHANGED demoVars

\* line 69 with a join that returns at once, as a join with a zero timeout
\* would
JoinNoWait ==
  /\ main_pc = "L69"
  /\ main_pc' = "exit"
  /\ UNCHANGED <<pc, stop_flag, sct, out, loopVars, obsVars>>
  /\ UNCHANGED demoVars

\* line 69: video_thread.join() returns once the recording thread has ended
Join ==
  /\ main_pc = "L69"
  /\ pc = "done"
  /\ main_pc' = "exit"
  /\ UNCHANGED <<pc, stop_flag, sct, out, loopVars, obsVars>>
  /\ UNCHANGED demoVars

\* ------------------------------------------------------ recording thread
\* An exception leaves record_screen: the `with mss.mss()` block of line 18
\* closes sct on the way out, nothing else is undone, the thread ends.
Raise(kind) ==
  /\ exc' = kind
  /\ sct' = IF sct = "open" THEN "closed" ELSE sct
  /\ pc' = "done"

\* line 18: mss.mss() opens the capture backend
OpenSct ==
  /\ pc = "L18"
  /\ sct' = "open"
  /\ pc' = "L19"
  /\ UNCHANGED <<main_pc, stop_flag, out, loopVars, obsVars>>
  /\ UNCHANGED demoVars

\* line 18: the capture backend cannot be opened
OpenSctFail ==
  /\ pc = "L18"
  /\ Raise("CaptureInitError")
  /\ UNCHANGED <<main_pc, stop_flag, out, loopVars, stop_time, polled,
                 frames_after_stop, sleeps_after_stop, delayed, last_write,
                 prev_cost, quiet_run, one_stall, opens, releases>>
  /\ UNCHANGED demoVars

\* lines 19-20: the capture region, sct.monitors[1]
ResolveMonitor ==
  /\ pc = "L19"
  /\ pc' = "L28"
  /\ UNCHANGED <<main_pc, stop_flag, sct, out, loopVars, obsVars>>
  /\ UNCHANGED demoVars

\* line 19: there is no monitor 1
ResolveMonitorFail ==
  /\ pc = "L19"
  /\ Raise("CaptureInitError")
  /\ UNCHANGED <<main_pc, stop_flag, out, loopVars, stop_time, polled,
                 frames_after_stop, sleeps_after_stop, delayed, last_write,
                 prev_cost, quiet_run, one_stall, opens, releases>>
  /\ UNCHANGED demoVars

\* lines 23-30: cv2.VideoWriter(output_video, fourcc, FPS, (width, height))
OpenWriter ==
  /\ pc = "L28"
  /\ out' = "open"
  /\ opens' = opens + 1
  /\ pc' = "L32"
  /\ UNCHANGED <<main_pc, stop_flag, sct, loopVars, exc, stop_time, polled,
                 frames_after_stop, sleeps_after_stop, delayed, last_write,
                 prev_cost, quiet_run, one_stall, releases>>
  /\ UNCHANGED demoVars

\* line 28 with the failure to open the writer noted and not raised: the
\* function goes on to line 32
OpenWriterFailUnraised ==
  /\ pc = "L28"
  /\ exc' = "WriterInitError"
  /\ pc' = "L32"
  /\ UNCHANGED <<main_pc, stop_flag, sct, out, loopVars, stop_time, polled,
                 frames_after_stop, sleeps_after_stop, delayed, last_write,
                 prev_cost, quiet_run, one_stall, opens, releases>>
  /\ UNCHANGED demoVars

\* line 28: the writer cannot be opened
OpenWriterFail ==
  /\ pc = "L28"
  /\ Raise("WriterInitError")
  /\ UNCHANGED <<main_pc, stop_flag, out, loopVars, stop_time, polled,
                 frames_after_stop, sleeps_after_stop, delayed, last_write,
                 prev_cost, quiet_run, one_stall, opens, releases>>
  /\ UNCHANGED demoVars

\* lines 32-33: frame_interval = 1.0 / FPS; next_frame_time = time.time()
InitPacing ==
  /\ pc = "L32"
  /\ next_frame_time' = now
  /\ pc' = "L35"
  /\ UNCHANGED <<main_pc, stop_flag, sct, out, frame_interval, current_time,
                 img, frame, written, now, grabbed, obsVars>>
  /\ UNCHANGED demoVars

\* line 35 with the test inverted, `while stop_flag.is_set()`
PollStopInverted ==
  /\ pc = "L35"
  /\ polled' = polled + 1
  /\ pc' = IF stop_flag THEN "L36" ELSE "L54"
  /\ UNCHANGED <<main_pc, stop_flag, sct, out, loopVars, exc, stop_time,
                 frames_after_stop, sleeps_after_stop, delayed, last_write,
                 prev_cost, quiet_run, one_stall, opens, releases>>
  /\ UNCHANGED demoVars

\* line 35: while not stop_flag.is_set()
PollStop ==
  /\ pc = "L35"
  /\ polled' = polled + 1
  /\ pc' = IF stop_flag THEN "L54" ELSE "L36"
  /\ UNCHANGED <<main_pc, stop_flag, sct, out, loopVars, exc, stop_time,
                 frames_after_stop, sleeps_after_stop, delayed, last_write,
                 prev_cost, quiet_run, one_stall, opens, releases>>
  /\ UNCHANGED demoVars

\* lines 36-39 with a strict test, `if current_time > next_frame_time`
ReadClockStrict ==
  /\ pc = "L36"
  /\ current_time' = now
  /\ pc' = IF now > next_frame_time THEN "L40" ELSE "L52"
  /\ UNCHANGED <<main_pc, stop_flag, sct, out, frame_interval, next_frame_time,
                 img, frame, written, now, grabbed, obsVars>>
  /\ UNCHANGED demoVars

\* lines 36-39: current_time = time.time(); if current_time >= next_frame_time
ReadClock ==
  /\ pc = "L36"
  /\ current_time' = now
  /\ pc' = IF now >= next_frame_time THEN "L40" ELSE "L52"
  /\ UNCHANGED <<main_pc, stop_flag, sct, out, frame_interval, next_frame_time,
                 img, frame, written, now, grabbed, obsVars>>
  /\ UNCHANGED demoVars

\* a blocking call started at `now` may take d ticks
MayTake(d) == d = 0 \/ now + d <= MaxTime

\* line 40: img = np.array(sct.grab(monitor)), a blocking call
GrabOk ==
  /\ pc = "L40"
  /\ \E d \in Stalls :
       /\ MayTake(d)
       /\ now' = now + d
       /\ delayed' = (delayed \/ d > 0)
  /\ img' = grab(grabbed + 1)
  /\ grabbed' = grabbed + 1
  /\ pc' = "L41"
  /\ UNCHANGED <<main_pc, stop_flag, sct, out, frame_interval, next_frame_time,
                 current_time, frame, written, exc, stop_time, polled,
                 frames_after_stop, sleeps_after_stop, last_write, prev_cost,
                 quiet_run, one_stall, opens, releases>>
  /\ UNCHANGED demoVars

\* line 40: sct.grab raises
GrabFail ==
  /\ pc = "L40"
  /\ Raise("CaptureReadError")
  /\ UNCHANGED <<main_pc, stop_flag, out, loopVars, stop_time, polled,
                 frames_after_stop, sleeps_after_stop, delayed, last_write,
                 prev_cost, quiet_run, one_stall, opens, releases>>
  /\ UNCHANGED demoVars

\* line 41 converting into a frame buffer that is filled once and then kept
ConvertStale ==
  /\ pc = "L41"
  /\ frame' = IF frame = NoImage THEN cvtColor(img) ELSE frame
  /\ pc' = "L42"
  /\ UNCHANGED <<main_pc, stop_flag, sct, out, frame_interval, next_frame_time,
                 current_time, img, written, now, grabbed, obsVars>>
  /\ UNCHANGED demoVars

\* line 41: frame = cv2.cvtColor(img, cv2.COLOR_BGRA2BGR)
Convert ==
  /\ pc = "L41"
  /\ frame' = cvtColor(img)
  /\ pc' = "L42"
  /\ UNCHANGED <<main_pc, stop_flag, sct, out, frame_interval, next_frame_time,
                 current_time, img, written, now, grabbed, obsVars>>
  /\ UNCHANGED demoVars

\* line 42: out.write(frame), a blocking call
WriteOk ==
  /\ pc = "L42"
  /\ \E d \in Stalls :
       /\ MayTake(d)
       /\ now' = now + d
       /\ delayed' = (delayed \/ d > 0)
  /\ written' = Append(written, frame)
  /\ last_write' = now
  /\ frames_after_stop' = IF stop_flag THEN frames_after_stop + 1
                                       ELSE frames_after_stop
  /\ pc' = "L45"
  /\ UNCHANGED <<main_pc, stop_flag, sct, out, frame_interval, next_frame_time,
                 current_time, img, frame, grabbed, exc, stop_time, polled,
                 sleeps_after_stop, prev_cost, quiet_run, one_stall, opens,
                 releases>>
  /\ UNCHANGED demoVars

\* line 42: out.write raises
WriteFail ==
  /\ pc = "L42"
  /\ Raise("WriteError")
  /\ UNCHANGED <<main_pc, stop_flag, out, loopVars, stop_time, polled,
                 frames_after_stop, sleeps_after_stop, delayed, last_write,
                 prev_cost, quiet_run, one_stall, opens, releases>>
  /\ UNCHANGED demoVars

\* the deadline update with the resync test made before the deadline is
\* advanced
NextDeadlineEarlyTest(deadline, reading, interval) ==
  IF reading - deadline > interval
    THEN reading
    ELSE deadline + interval

\* the deadline update without the resync of lines 48-49
NextDeadlineNoResync(deadline, reading, interval) == deadline + interval

\* the deadline update advancing by two intervals
NextDeadlineDouble(deadline, reading, interval) ==
  IF reading - (deadline + 2 * interval) > interval
    THEN reading
    ELSE deadline + 2 * interval

\* the deadline update resynchronising only when more than three intervals
\* behind
NextDeadlineSlack(deadline, reading, interval) ==
  IF reading - (deadline + interval) > 3 * interval
    THEN reading
    ELSE deadline + interval

\* the deadline update resynchronising only when more than two intervals
\* behind the advanced deadline
NextDeadlineLateResync(deadline, reading, interval) ==
  IF reading - (deadline + interval) > 2 * interval
    THEN reading
    ELSE deadline + interval

\* the deadline update made with a fresh reading of the clock after the
\* write instead of the reading of line 36
NextDeadlineClock(deadline, reading, interval) ==
  IF now - (deadline + interval) > interval
    THEN now
    ELSE deadline + interval

\* lines 45-49: next_frame_time += frame_interval, then the resync test with
\* the time reading of line 36
NextDeadline(deadline, reading, interval) ==
  IF reading - (deadline + interval) > interval
    THEN reading
    ELSE deadline + interval

\* lines 45-49 with the loop test of line 35 skipped after a frame: the next
\* iteration starts at line 36
AdvanceUnpolled ==
  /\ pc = "L45"
  /\ next_frame_time' =
       NextDeadline(next_frame_time, current_time, frame_interval)
  /\ polled' = 0
  /\ prev_cost' = now - current_time
  /\ quiet_run' = IF now = current_time THEN quiet_run + 1 ELSE 0
  /\ one_stall' = IF now = current_time THEN one_stall
                  ELSE IF one_stall = NoStall
                         THEN [cost |-> now - current_time, end |-> now]
                         ELSE ManyStalls
  /\ pc' = "L36"
  /\ UNCHANGED <<main_pc, stop_flag, sct, out, frame_interval, current_time,
                 img, frame, written, now, grabbed, exc, stop_time,
                 frames_after_stop, sleeps_after_stop, delayed, last_write,
                 opens, releases>>
  /\ UNCHANGED demoVars

\* lines 45-49, the end of a frame-writing iteration; the loop test of line 35
\* comes next
Advance ==
  /\ pc = "L45"
  /\ next_frame_time' =
       NextDeadline(next_frame_time, current_time, frame_interval)
  /\ polled' = 0
  /\ prev_cost' = now - current_time
  /\ quiet_run' = IF now = current_time THEN quiet_run + 1 ELSE 0
  /\ one_stall' = IF now = current_time THEN one_stall
                  ELSE IF one_stall = NoStall
                         THEN [cost |-> now - current_time, end |-> now]
                         ELSE ManyStalls
  /\ pc' = "L35"
  /\ UNCHANGED <<main_pc, stop_flag, sct, out, frame_interval, current_time,
                 img, frame, written, now, grabbed, exc, stop_time,
                 frames_after_stop, sleeps_after_stop, delayed, last_write,
                 opens, releases>>
  /\ UNCHANGED demoVars

\* line 52: time.sleep(0.001) returns after one tick, or later when the
\* thread oversleeps.  The clock is capped at MaxTime while the recording
\* runs, and one tick later once the stop is requested.
Sleep ==
  /\ pc = "L52"
  /\ now < MaxTime \/ (stop_flag /\ now <= MaxTime)
  /\ \E d \in 1..MaxSleep :
       /\ d = 1 \/ now + d <= MaxTime
       /\ now' = now + d
       /\ delayed' = (delayed \/ d > 1)
       /\ one_stall' = IF d > 1 THEN ManyStalls ELSE one_stall
  /\ polled' = 0
  /\ quiet_run' = 0
  /\ sleeps_after_stop' = IF stop_flag THEN sleeps_after_stop + 1
                                       ELSE sleeps_after_stop
  /\ pc' = "L35"
  /\ UNCHANGED <<main_pc, stop_flag, sct, out, frame_interval, next_frame_time,
                 current_time, img, frame, written, grabbed, exc, stop_time,
                 frames_after_stop, last_write, prev_cost, opens, releases>>
  /\ UNCHANGED demoVars

\* lines 54-55 with the writer released a second time on the way out
ReleaseTwice ==
  /\ pc = "L54"
  /\ out' = "released"
  /\ releases' = releases + 2
  /\ sct' = "closed"
  /\ pc' = "done"
  /\ UNCHANGED <<main_pc, stop_flag, loopVars, exc, stop_time, polled,
                 frames_after_stop, sleeps_after_stop, delayed, last_write,
                 prev_cost, quiet_run, one_stall, opens>>
  /\ UNCHANGED demoVars

\* lines 54-55: out.release(), the completion message, the end of the `with`
Release ==
  /\ pc = "L54"
  /\ out' = "released"
  /\ releases' = releases + 1
  /\ sct' = "closed"
  /\ pc' = "done"
  /\ UNCHANGED <<main_pc, stop_flag, loopVars, exc, stop_time, polled,
                 frames_after_stop, sleeps_after_stop, delayed, last_write,
                 prev_cost, quiet_run, one_stall, opens>>
  /\ UNCHANGED demoVars

\* ------------------------------------------------------ the specification
MainNext == StartThread \/ SetStop \/ Join
LoopNext ==
  \/ OpenSct \/ OpenSctFail \/ ResolveMonitor \/ ResolveMonitorFail
  \/ OpenWriter \/ OpenWriterFail \/ InitPacing
  \/ PollStop \/ ReadClock \/ GrabOk \/ GrabFail \/ Convert
  \/ WriteOk \/ WriteFail \/ Advance \/ Sleep \/ Release

Next == MainNext \/ KeyboardInterrupt \/ LoopNext

Spec == Init /\ [][Next]_vars

\* Both threads are scheduled fairly; the operator's interrupt is an input of
\* the environment and is under no obligation to come.
FairSpec == Spec /\ WF_vars(MainNext) /\ WF_vars(LoopNext)

\* the states of the loop's state machine
State ==
  CASE pc \in {"idle", "L18", "L19", "L28", "L32"} -> "Initializing"
    [] pc \in {"L35", "L36", "L40", "L41", "L42", "L45", "L52"} -> "Capturing"
    [] pc = "L54" -> "Stopping"
    [] pc = "done" -> "Closed"

\* ------------------------------------------------- demo.py, main()
\* main() is entered with some directory tree below current_dir
DemoStart ==
  /\ demo_pc = "L306"
  /\ fs \in SUBSET Paths
  /\ html_files = EmptyDict
  /\ html_content = NoPage
  /\ index_html = NotWritten
  /\ result = NoResult
  /\ runs = <<>>
  /\ banner = FALSE
  /\ demo_exc = "none"

\* record.py is not running while demo.py runs
DemoInit == RecordInit /\ frame_interval = 1 /\ DemoStart

\* line 306: html_files = scan_html_files(current_dir)
Scan ==
  /\ demo_pc = "L306"
  /\ html_files' = scan_html_files(fs)
  /\ demo_pc' = "L308"
  /\ UNCHANGED <<fs, html_content, index_html, result, runs, banner,
                 demo_exc>>
  /\ UNCHANGED recordVars

\* lines 308-310: if not html_files: print(...); return
NoFilesReturn ==
  /\ demo_pc = "L308"
  /\ DOMAIN html_files = {}
  /\ demo_pc' = "done"
  /\ UNCHANGED <<fs, html_files, html_content, index_html, result, runs,
                 banner, demo_exc>>
  /\ UNCHANGED recordVars

\* lines 312-315: html_content = generate_html(html_files)
Generate ==
  /\ demo_pc = "L308"
  /\ DOMAIN html_files # {}
  /\ html_content' = generate_html(html_files)
  /\ demo_pc' = "L319"
  /\ UNCHANGED <<fs, html_files, index_html, result, runs, banner, demo_exc>>
  /\ UNCHANGED recordVars

\* lines 318-320: the page is written to current_dir / "index.html"
WriteIndex ==
  /\ demo_pc = "L319"
  /\ index_html' = [written |-> TRUE, content |-> html_content]
  /\ fs' = fs \cup {RootIndex}
  /\ demo_pc' = "L335"
  /\ UNCHANGED <<html_files, html_content, result, runs, banner, demo_exc>>
  /\ UNCHANGED recordVars

\* line 319: open() raises; the statement is outside the try block of line
\* 332, so the exception leaves main()
WriteIndexFail ==
  /\ demo_pc = "L319"
  /\ demo_exc' = "OSError"
  /\ demo_pc' = "done"
  /\ UNCHANGED <<fs, html_files, html_content, index_html, result, runs,
                 banner>>
  /\ UNCHANGED recordVars

\* subprocess.run(["git", cmd, ...]) returns r
Ran(cmd, r) ==
  [cmd |-> cmd, returncode |-> r.returncode,
   nothing_to_commit |-> r.nothing_to_commit]

\* lines 335-345: git add -A; a non-zero return code ends main()
GitAdd ==
  /\ demo_pc = "L335"
  /\ \E r \in GitResults :
       /\ result' = Ran("add", r)
       /\ runs' = Append(runs, Ran("add", r))
       /\ demo_pc' = IF r.returncode = 0 THEN "L359" ELSE "done"
  /\ UNCHANGED <<fs, html_files, html_content, index_html, banner, demo_exc>>
  /\ UNCHANGED recordVars

\* lines 359-373 with the "nothing to commit" branch falling through to the
\* push instead of returning
GitCommitNoReturn ==
  /\ demo_pc = "L359"
  /\ \E r \in GitResults :
       /\ result' = Ran("commit", r)
       /\ runs' = Append(runs, Ran("commit", r))
       /\ demo_pc' = IF r.returncode = 0 THEN "L377"
                     ELSE IF r.nothing_to_commit THEN "L377"
                     ELSE "done"
  /\ UNCHANGED <<fs, html_files, html_content, index_html, banner, demo_exc>>
  /\ UNCHANGED recordVars

\* lines 359-373: git commit; return code 0 goes on to the push, "nothing to
\* commit" on stdout returns, any other failure returns
GitCommit ==
  /\ demo_pc = "L359"
  /\ \E r \in GitResults :
       /\ result' = Ran("commit", r)
       /\ runs' = Append(runs, Ran("commit", r))
       /\ demo_pc' = IF r.returncode = 0 THEN "L377"
                     ELSE IF r.nothing_to_commit THEN "done"
                     ELSE "done"
  /\ UNCHANGED <<fs, html_files, html_content, index_html, banner, demo_exc>>
  /\ UNCHANGED recordVars

\* lines 377-388: git push; a non-zero return code ends main()
GitPush ==
  /\ demo_pc = "L377"
  /\ \E r \in GitResults :
       /\ result' = Ran("push", r)
       /\ runs' = Append(runs, Ran("push", r))
       /\ demo_pc' = IF r.returncode = 0 THEN "L391" ELSE "done"
  /\ UNCHANGED <<fs, html_files, html_content, index_html, banner, demo_exc>>
  /\ UNCHANGED recordVars

\* lines 390-392: the success banner, the end of main()
Banner ==
  /\ demo_pc = "L391"
  /\ banner' = TRUE
  /\ demo_pc' = "done"
  /\ UNCHANGED <<fs, html_files, html_content, index_html, result, runs,
                 demo_exc>>
  /\ UNCHANGED recordVars

\* lines 394-397: subprocess.run raises (git missing, or any other error);
\* the except clauses print a message and main() ends
GitRaises ==
  /\ demo_pc \in {"L335", "L359", "L377"}
  /\ demo_exc' \in {"FileNotFoundError", "Exception"}
  /\ demo_pc' = "done"
  /\ UNCHANGED <<fs, html_files, html_content, index_html, result, runs,
                 banner>>
  /\ UNCHANGED recordVars

DemoNext ==
  \/ Scan \/ NoFilesReturn \/ Generate \/ WriteIndex \/ WriteIndexFail
  \/ GitAdd \/ GitCommit \/ GitPush \/ Banner \/ GitRaises

DemoSpec == DemoInit /\ [][DemoNext]_vars

\* ================================================================ claims

\* C1: whenever the recording thread has ended in a run that opened the
\* writer, out.release() has been called, whatever ended the thread (stop
\* request, failing write, failing grab).
C1_ReleasedOnEveryExit ==
  (pc = "done" /\ opens > 0) => (releases = opens /\ out = "released")

\* C2: a failing grab does not end the loop: the step in which sct.grab
\* raises leaves the loop Capturing, writes nothing and advances
\* next_frame_time by exactly one frame_interval.
C2_CaptureErrorSkipsFrame ==
  [][(pc = "L40" /\ exc' = "CaptureReadError")
       => /\ State' = "Capturing"
          /\ written' = written
          /\ next_frame_time' = next_frame_time + frame_interval]_vars

\* C3: after a failing write the loop has stopped (nothing more is grabbed or
\* written) and the main thread learns of it: it finishes although no
\* operator interrupt comes.
C3_WriteErrorSurfaced ==
  /\ [](exc = "WriteError" => pc = "done")
  /\ (exc = "WriteError") ~> (main_pc = "exit")

\* C4 as stated: after a capture tick that took longer than one
\* frame_interval, the deadline update of the iteration that follows sets
\* next_frame_time to that iteration's time reading, the clock after the stall.
C4_StallResetsDeadline ==
  [][(pc = "L45" /\ pc' = "L35" /\ prev_cost > frame_interval)
       => next_frame_time' = current_time]_vars

\* C4 as amended: a tick that took longer than one frame_interval leaves its
\* own deadline update behind the clock; the iteration that follows resets
\* next_frame_time to its time reading exactly when that reading is more than
\* two intervals past the deadline it serves, and otherwise advances the
\* deadline by one interval.
C4_ResyncWhenTwoBehind ==
  [][/\ (pc = "L45" /\ pc' = "L35" /\ now - current_time > frame_interval)
          => next_frame_time' < now
     /\ (pc = "L45" /\ pc' = "L35" /\ prev_cost > frame_interval)
          => next_frame_time' =
               IF current_time - next_frame_time > 2 * frame_interval
                 THEN current_time
                 ELSE next_frame_time + frame_interval]_vars

\* C4 witness: the iteration after a stalled tick is about to resynchronise.
C4_Witness ==
  /\ pc = "L45"
  /\ prev_cost > frame_interval
  /\ current_time - next_frame_time > 2 * frame_interval

\* C5 as stated: once a tick has stalled, no two frames are written in
\* iterations that follow each other without an idle sleep between them.
C5_NoBackToBackWrites == quiet_run <= 1

\* C5 as amended: frames are written back to back after a stall, but in a
\* bounded burst: at most three zero-latency capture ticks follow one another
\* without an idle sleep between them.
C5_BoundedBurst == quiet_run <= 3

\* C5 witness: three frames were written back to back after a stalled tick.
C5_Witness == quiet_run = 3 /\ prev_cost = 0 /\ delayed

\* a finished run without latency, oversleep or errors, the stop requested
NominalRun == pc = "done" /\ exc = "none" /\ ~delayed /\ stop_time >= 0

\* C6 as stated: in a nominal run stopped after stop_time = D ticks, the
\* number of frames written is within one frame of D / frame_interval, and a
\* run of D = 10 intervals writes exactly 10 frames.
C6_ExactlyTenFrames ==
  NominalRun =>
    /\ Len(written) * frame_interval - stop_time <= frame_interval
    /\ stop_time - Len(written) * frame_interval <= frame_interval
    /\ stop_time = 10 * frame_interval => Len(written) = 10

\* C6 as amended: in a nominal run stopped after D ticks the number of frames
\* written is within one frame of D / frame_interval; a run of D = 10
\* intervals writes 10 or 11 frames (the frame due at the instant of the stop
\* request races with it); consecutive writes are one interval apart.
C6_FrameCountWithinOne ==
  /\ [](NominalRun =>
          /\ Len(written) * frame_interval - stop_time <= frame_interval
          /\ stop_time - Len(written) * frame_interval <= frame_interval
          /\ stop_time = 10 * frame_interval => Len(written) \in {10, 11})
  /\ [][(pc = "L42" /\ pc' = "L45" /\ ~delayed' /\ last_write >= 0)
          => now = last_write + frame_interval]_vars

\* C6 witness: a nominal run of 10 intervals that wrote 10 frames.
C6_Witness ==
  NominalRun /\ stop_time = 10 * frame_interval /\ Len(written) = 10

\* C7: stop_flag is polled exactly once per loop iteration, frame due or not,
\* and once it is set at most one more frame is written and at most one more
\* idle sleep is taken (the iteration in progress), never both.
C7_StopHonoured ==
  /\ pc = "L35" => polled = 0
  /\ pc \in {"L36", "L40", "L41", "L42", "L45", "L52", "L54"} => polled = 1
  /\ frames_after_stop <= 1
  /\ sleeps_after_stop <= 1
  /\ frames_after_stop + sleeps_after_stop <= 1

\* C7 witness: the thread ended after writing the frame that was in progress
\* when the stop was requested.
C7_Witness == pc = "done" /\ exc = "none" /\ frames_after_stop = 1

\* C8: under fair scheduling, once stop_flag is set while the loop is
\* Capturing, either a grab or a write fails or the thread reaches Closed with
\* the writer released; Closed is entered without an error only from
\* Stopping, by the release.
C8_StopLeadsToClosed ==
  /\ (stop_flag /\ State = "Capturing")
       ~> (exc \in LoopErrors \/ (State = "Closed" /\ out = "released"))
  /\ [][(State # "Closed" /\ State' = "Closed" /\ exc' = "none")
          => (State = "Stopping" /\ out = "open" /\ out' = "released")]_vars

\* C8 witness: the thread is Closed, the writer released, after a stop request
\* that arrived during an idle sleep.
C8_Witness ==
  State = "Closed" /\ out = "released" /\ sleeps_after_stop = 1

C10_StrictCaptureOrder ==
  /\ [](/\ \A k \in 1..Len(written) : written[k] = cvtColor(grab(k))
        /\ grabbed - Len(written) \in {0, 1}
        /\ pc = "L40" => grabbed = Len(written))
  /\ [][written' # written
          => (pc = "L42" /\ written' = Append(written, frame))]_vars
  /\ [][main_pc' # main_pc
          => UNCHANGED <<sct, out, loopVars, exc, opens, releases>>]_vars

\* C10 witness: three frames reached the sink and a fourth image is grabbed.
C10_Witness == Len(written) = 3 /\ grabbed = 4 /\ pc = "L42"

\* C11: the writer is opened at most once and released at most once, never
\* before it was opened and only while it is open; Closed is terminal: once
\* the thread has ended (and so after the release) nothing is grabbed or
\* written and nothing of the recording thread changes any more.
C11_WriterLifecycle ==
  /\ [](/\ opens <= 1
        /\ releases <= opens
        /\ out = "released" <=> releases = 1
        /\ out = "none" <=> opens = 0
        /\ out = "released" => State = "Closed")
  /\ [][out' # out
          => \/ (out = "none" /\ out' = "open" /\ pc = "L28")
             \/ (out = "open" /\ out' = "released" /\ pc = "L54")]_vars
  /\ [][State = "Closed"
          => UNCHANGED <<pc, sct, out, loopVars, exc, opens, releases>>]_vars

\* C11 witness: the main thread has joined a recording thread that wrote
\* frames and released the writer.
C11_Witness ==
  main_pc = "exit" /\ out = "released" /\ Len(written) >= 2 /\ releases = 1

\* a finished run without errors in which exactly one capture tick took five
\* intervals and everything else was on time, the stalled tick lying within
\* the run: it was over when the stop was requested
ScenarioRun ==
  /\ pc = "done"
  /\ exc = "none"
  /\ one_stall.cost = 5 * frame_interval
  /\ stop_time >= one_stall.end

\* C12: when one capture tick takes five intervals and all other ticks take
\* no time, the iteration after the stalled tick resets next_frame_time to
\* its time reading, the clock after the delay; fewer than five frames are
\* then written back to back; and the frames written over a run of D ticks
\* number strictly less than D / frame_interval.
C12_FiveIntervalStall ==
  /\ [][(/\ pc = "L45" /\ pc' = "L35"
         /\ one_stall.cost = 5 * frame_interval
         /\ prev_cost = 5 * frame_interval
         /\ now = current_time)
          => (next_frame_time' = now /\ now = one_stall.end)]_vars
  /\ [](one_stall.cost = 5 * frame_interval => quiet_run < 5)
  /\ [](ScenarioRun => Len(written) * frame_interval < stop_time)

\* C12 witness: such a run, with frames written after the stall.
C12_Witness ==
  ScenarioRun /\ Len(written) >= 5 /\ last_write > one_stall.end

\* C13: a frame is captured and written only in an iteration whose time
\* reading is at or past next_frame_time; an iteration whose reading is before
\* it only sleeps, for at least one tick: no capture, no write,
\* next_frame_time and frame_interval unchanged, the writer still open.
C13_CaptureOnlyWhenDue ==
  /\ [](pc \in {"L40", "L41", "L42", "L45"} => current_time >= next_frame_time)
  /\ [][(grabbed' # grabbed \/ written' # written)
          => current_time >= next_frame_time]_vars
  /\ [](pc = "L52" => (current_time < next_frame_time /\ out = "open"))
  /\ [][(pc = "L52" /\ pc' # pc)
          => /\ pc' = "L35"
             /\ now' >= now + 1
             /\ out' = "open"
             /\ UNCHANGED <<grabbed, written, img, frame, next_frame_time,
                            frame_interval, current_time, sct>>]_vars

\* C13 witness: the loop has slept between two frames and is back at its
\* test.
C13_Witness ==
  /\ pc = "L35"
  /\ polled = 0
  /\ quiet_run = 0
  /\ prev_cost = 0
  /\ current_time < next_frame_time
  /\ now > current_time
  /\ Len(written) >= 2

\* C14: every frame-writing iteration ends with next_frame_time advanced by
\* frame_interval, except that it becomes the iteration's time reading when
\* that reading is more than frame_interval past the advanced deadline; the
\* reading is the one taken at line 36, before the capture, and is not taken
\* again during the iteration; frame_interval never changes, and
\* next_frame_time changes nowhere else in the loop.
C14_DeadlineUpdate ==
  /\ [][(pc = "L45" /\ pc' = "L35")
          => next_frame_time' =
               IF current_time - (next_frame_time + frame_interval)
                    > frame_interval
                 THEN current_time
                 ELSE next_frame_time + frame_interval]_vars
  /\ [][(pc = "L36" /\ pc' # pc) => current_time' = now]_vars
  /\ [][(pc \in {"L40", "L41", "L42", "L45"})
          => (current_time' = current_time)]_vars
  /\ [][frame_interval' = frame_interval]_vars
  /\ [][next_frame_time' # next_frame_time => pc \in {"L32", "L45"}]_vars

\* C14 witness: both branches of the update have been taken, the resync
\* after a tick during which the clock moved on.
C14_Witness ==
  /\ pc = "L35"
  /\ polled = 0
  /\ prev_cost > 0
  /\ next_frame_time = current_time
  /\ now > current_time
  /\ Len(written) >= 3

\* C15: at the end of every frame-writing iteration next_frame_time lies
\* within one frame_interval of the time reading of that iteration, on either
\* side, whatever stalls came before.
C15_DeadlineNearReading ==
  /\ [][(pc = "L45" /\ pc' = "L35")
          => /\ current_time - frame_interval <= next_frame_time'
             /\ next_frame_time' <= current_time + frame_interval]_vars
  /\ []((pc \in {"L35", "L36", "L52", "L54"} /\ Len(written) > 0)
          => /\ current_time - frame_interval <= next_frame_time
             /\ next_frame_time <= current_time + frame_interval)

\* C15 witness: after two stalled ticks in a row the deadline is exactly one
\* interval behind the reading of the last of them.
C15_Witness ==
  /\ pc = "L35"
  /\ polled = 0
  /\ one_stall = ManyStalls
  /\ prev_cost > frame_interval
  /\ next_frame_time = current_time - frame_interval
  /\ Len(written) >= 2

\* C16: however long one stalled capture tick lasts, the ticks after it that
\* take no time write at most 3 frames before the loop sleeps again: after
\* three such frames the next iteration sleeps, after a stall of more than
\* three intervals there are at most two, and after the k-th of them the
\* deadline is at least (k - 2) intervals past the clock.
C16_BoundedCatchUp ==
  /\ [][(pc = "L36" /\ pc' # pc /\ quiet_run >= 3) => pc' = "L52"]_vars
  /\ []((one_stall.cost > 3 * frame_interval) => quiet_run <= 2)
  /\ []((pc \in {"L35", "L36"} /\ quiet_run >= 1)
          => next_frame_time >= now + (quiet_run - 2) * frame_interval)

\* C16 witness: the longest stall the model allows, then two frames written
\* without a sleep, then the loop waiting on the deadline.
C16_Witness ==
  /\ pc = "L52"
  /\ one_stall.cost = MaxStall
  /\ one_stall.cost > 3 * frame_interval
  /\ quiet_run = 2
  /\ current_time < next_frame_time

\* C17: the stop flag is set by the controller only, once, at line 67 after
\* the interrupt, and is never cleared; the controller then joins the
\* recording thread and finishes only when that thread has ended; when the
\* recording stopped normally (no exception in the thread), the writer has
\* been released by then, so the program does not exit with the writer open.
C17_ShutdownOrdering ==
  /\ [][stop_flag => stop_flag']_vars
  /\ [][(stop_flag' # stop_flag)
          => (main_pc = "L67" /\ main_pc' = "L69" /\ pc' = pc)]_vars
  /\ [](stop_flag <=> main_pc \in {"L69", "exit"})
  /\ [][(main_pc \in {"L69", "exit"}) => (main_pc' \in {"L69", "exit"})]_vars
  /\ [][(main_pc' = "exit" /\ main_pc # "exit")
          => (main_pc = "L69" /\ pc = "done")]_vars
  /\ []((main_pc = "exit" /\ exc = "none")
          => (out = "released" /\ releases = 1 /\ sct = "closed"))

\* C17 witness: the program has exited after a normal stop that was requested
\* in the middle of a capture tick, so the join had to wait for the frame and
\* the release.
C17_Witness ==
  /\ main_pc = "exit"
  /\ exc = "none"
  /\ frames_after_stop = 1
  /\ now > stop_time
  /\ out = "released"

\* no "*.html" path in any subdirectory of current_dir
NoHtmlInSubdirs == \A p \in fs : ~(p.folder # "." /\ p.name.ext = "html")

\* the order of the git commands in main()
GitOrder == <<"add", "commit", "push">>

\* C18: in demo.py main, when no HTML file is found in any subdirectory,
\* index.html is not written and no git command is run; otherwise index.html
\* is written before git add, each git command is attempted only after the
\* one before it returned 0 (add, commit, push in this order), a "nothing to
\* commit" result or a failure is the last command run, and the success
\* banner is printed only after push returned 0.
C18_PipelineOrdering ==
  /\ [](NoHtmlInSubdirs
          => (~index_html.written /\ runs = <<>> /\ ~banner
              /\ demo_pc \in {"L306", "L308", "done"}))
  /\ []((demo_pc = "done" /\ demo_exc # "OSError" /\ ~NoHtmlInSubdirs)
          => index_html.written)
  /\ [](runs # <<>>
          => (index_html = [written |-> TRUE,
                            content |-> generate_html(html_files)]
              /\ RootIndex \in fs))
  /\ [](/\ Len(runs) <= 3
        /\ \A i \in 1..Len(runs) :
             /\ runs[i].cmd = GitOrder[i]
             /\ i > 1 => runs[i - 1].returncode = 0)
  /\ [](\A i \in 1..Len(runs) :
          (runs[i].returncode # 0 \/ runs[i].nothing_to_commit)
            => (i = Len(runs) /\ ~banner /\ demo_pc = "done"))
  /\ [](banner => (Len(runs) = 3 /\ runs[3].returncode = 0))
  /\ [][banner' # banner => (demo_pc = "L391" /\ result.cmd = "push"
                               /\ result.returncode = 0)]_vars

\* C18 witness: the whole pipeline has run for a tree with pages in two
\* subdirectories and with pages in the root that the index leaves out.
C18_Witness ==
  /\ demo_pc = "done"
  /\ banner
  /\ Len(runs) = 3
  /\ DOMAIN html_files = {"docs", "docs/img"}
  /\ Len(html_files["docs"]) = 2
  /\ [folder |-> ".", name |-> [stem |-> "page", ext |-> "html"]] \in fs
  /\ Len(index_html.content) = 2

====
